---- MODULE Spec2Model ----
(***************************************************************************)
(* Project-Oversight dashboard: the aggregation route of app.py            *)
(* (dashboard) and the synthetic history generator of data.generator.py    *)
(* (create_schema, generate_data and the script's entry point).            *)
(*                                                                         *)
(* Units.  REAL columns are modelled by integers:                          *)
(*   - in the dashboard part a column holds the number the row stores;     *)
(*   - in the generator part the running percentages are counted in 1/600  *)
(*     of a percent (100/NUM_WEEKS = 25/6 is then the integer 2500 and a   *)
(*     factor given in hundredths keeps every increment an integer), the   *)
(*     running spend in 1/6 of a currency unit, and every value passed     *)
(*     through round(x, 2) in hundredths.                                  *)
(* SQL NULL is the record Null; a non-NULL value x is Val(x).              *)
(***************************************************************************)
EXTENDS Integers, Sequences, FiniteSets, TLC

VARIABLES
    \* ---- the database the dashboard reads (sap_project.db) ----
    workstreams,      \* table workstreams: the set of ws_id present (PRIMARY KEY)
    progress,         \* table progress: rows in id (AUTOINCREMENT) order
    change_requests,  \* table change_requests: cr_id -> row (PRIMARY KEY)
    \* ---- one dashboard() request ----
    pc,               \* position of the request in dashboard()
    kpi_data,         \* result of kpi_query
    kpi_week,         \* what (SELECT MAX(week_ending) FROM progress) gave kpi_query
    projects,         \* result of status_query
    status_week,      \* the same subquery, as status_query evaluated it
    labels,           \* chart labels
    chart_datasets,   \* ws_id -> [actual, planned]
    bubble_data,      \* the formatted bubble list
    bubble_week,      \* the same subquery, as bubble_query evaluated it
    \* ---- the generator script (data.generator.py) ----
    today,            \* day number of datetime.now() when the script is loaded
    gpc,              \* position of the script
    runs,             \* script runs started so far
    disk,             \* the committed database file, or NoFile
    txn,              \* the connection's view: disk plus uncommitted inserts
    ws_idx,           \* index into workstreams_data of the loop at line 73 / 123
    i,                \* weeks generated so far for the current workstream
    current_planned,  \* running planned percentage (1/600 %)
    current_actual,   \* running actual percentage (1/600 %)
    current_spend,    \* running spend (1/6 currency unit)
    last_record,      \* the tuple appended last to progress_records
    record_keys,      \* progress_records projected on (week_str, ws_id)
    cr_counter,       \* cr_counter
    cr_keys           \* cr_records projected on (cr_id, ws_id)

dbVars  == <<workstreams, progress, change_requests>>
reqVars == <<pc, kpi_data, kpi_week, projects, status_week, labels,
             chart_datasets, bubble_data, bubble_week>>
genVars == <<today, gpc, runs, disk, txn, ws_idx, i, current_planned,
             current_actual, current_spend, last_record, record_keys,
             cr_counter, cr_keys>>
vars    == <<dbVars, reqVars, genVars>>

----------------------------------------------------------------------------
(* Bounds of the model *)

MaxRows == 2   \* rows of table progress in a dashboard fact set
MaxRuns == 2   \* runs of the generator script

----------------------------------------------------------------------------
(* Values *)

Null   == [isnull |-> TRUE, v |-> 0]
Val(x) == [isnull |-> FALSE, v |-> x]

RECURSIVE SumSeq(_)
SumSeq(s) == IF s = <<>> THEN 0 ELSE Head(s) + SumSeq(Tail(s))

RECURSIVE SumCost(_, _)
SumCost(f, S) ==
    IF S = {} THEN 0
    ELSE LET x == CHOOSE y \in S : TRUE IN f[x] + SumCost(f, S \ {x})

Column(rows, c) == [k \in DOMAIN rows |-> rows[k][c]]

----------------------------------------------------------------------------
(* The fact sets the schema admits (create_schema): no UNIQUE constraint   *)
(* on (ws_id, week_ending), foreign keys not enforced.  Every column of a  *)
(* row holds a number or a string; rows with NULL columns are left out.    *)

WsIds == {"WS_001", "WS_002"}

WsName(ws) == IF ws = "WS_001" THEN "Finance (FICO)" ELSE "Supply Chain (MM/SD)"

WsOwner(ws) == IF ws = "WS_001" THEN "Sarah J." ELSE "Mike R."

\* week_ending values: ISO dates, compared as SQLite compares them (here by
\* their rank).
Weeks == {1, 2}

\* The measures of a snapshot row: on plan, and behind plan and over budget.
SnapshotValues ==
    { [actual_pct |-> 50, planned_pct |-> 50, budget_spent |-> 1000,
       schedule_variance |-> 0, cpi |-> 100],
      [actual_pct |-> 20, planned_pct |-> 50, budget_spent |-> 1500,
       schedule_variance |-> -30, cpi |-> 27] }

ProgressRows ==
    { [week_ending |-> w, ws_id |-> s, actual_pct |-> m.actual_pct,
       planned_pct |-> m.planned_pct, budget_spent |-> m.budget_spent,
       schedule_variance |-> m.schedule_variance, cpi |-> m.cpi] :
      w \in Weeks, s \in WsIds, m \in SnapshotValues }

ProgressTables == UNION { [1..n -> ProgressRows] : n \in 0..MaxRows }

CrIds == {"CR_1000", "CR_1001"}

Statuses == {"Approved", "Pending", "Rejected"}

CrCost(c) == IF c = "CR_1000" THEN 5000 ELSE 50000

CrRows(c) == { [ws_id |-> s, status |-> st, cost_impact |-> CrCost(c)] :
               s \in WsIds, st \in Statuses }

CrTables ==
    UNION { { f \in [D -> UNION { CrRows(c) : c \in D }] :
              \A c \in D : f[c] \in CrRows(c) } : D \in SUBSET CrIds }

----------------------------------------------------------------------------
(* dashboard(): the queries *)

\* (SELECT MAX(week_ending) FROM progress): NULL on an empty table.
MaxWeekEnding(rows) ==
    IF rows = <<>> THEN Null
    ELSE Val(CHOOSE w \in { rows[k].week_ending : k \in DOMAIN rows } :
               \A k \in DOMAIN rows : rows[k].week_ending <= w)

\* WHERE week_ending = <subquery>: a comparison with NULL selects nothing.
WhereLatest(rows, m) ==
    SelectSeq(rows, LAMBDA r : (~m.isnull) /\ r.week_ending = m.v)

\* SUM / AVG: NULL over no rows; AVG is kept as the exact fraction <<sum, count>>.
\* (variant: SUM(budget_spent) with the WHERE clause left out)
SqlSumAll(rows, m) ==
    IF rows = <<>> THEN Null ELSE Val(SumSeq(Column(rows, "budget_spent")))

SqlSum(rows, m) ==
    LET sel == WhereLatest(rows, m)
    IN  IF sel = <<>> THEN Null ELSE Val(SumSeq(Column(sel, "budget_spent")))

SqlAvg(rows, m) ==
    LET sel == WhereLatest(rows, m)
    IN  IF sel = <<>> THEN Null
        ELSE Val(<<SumSeq(Column(sel, "cpi")), Len(sel)>>)

ActiveRisks(crs) ==
    Cardinality({ c \in DOMAIN crs : crs[c].status = "Approved" })

\* kpi_query
KpiQuery(rows, crs) ==
    LET m == MaxWeekEnding(rows)
    IN  [total_spend |-> SqlSum(rows, m), avg_cpi |-> SqlAvg(rows, m),
         active_risks |-> ActiveRisks(crs)]

\* status_query: FROM workstreams w JOIN progress p ON w.ws_id = p.ws_id WHERE ...
GridRow(p) ==
    [ws_id |-> p.ws_id, name |-> WsName(p.ws_id), owner |-> WsOwner(p.ws_id),
     actual_pct |-> p.actual_pct, planned_pct |-> p.planned_pct,
     schedule_variance |-> p.schedule_variance,
     budget_spent |-> p.budget_spent, cpi |-> p.cpi]

StatusJoin(ws, rows) ==
    LET sel == SelectSeq(WhereLatest(rows, MaxWeekEnding(rows)),
                         LAMBDA r : r.ws_id \in ws)
    IN  [k \in DOMAIN sel |-> GridRow(sel[k])]

\* ORDER BY p.schedule_variance ASC
RECURSIVE InsertAsc(_, _)
InsertAsc(r, s) ==
    IF s = <<>> THEN <<r>>
    ELSE IF r.schedule_variance <= Head(s).schedule_variance
         THEN <<r>> \o s
         ELSE <<Head(s)>> \o InsertAsc(r, Tail(s))

\* (variant: ORDER BY p.schedule_variance DESC)
RECURSIVE InsertDesc(_, _)
InsertDesc(r, s) ==
    IF s = <<>> THEN <<r>>
    ELSE IF r.schedule_variance >= Head(s).schedule_variance
         THEN <<r>> \o s
         ELSE <<Head(s)>> \o InsertDesc(r, Tail(s))

RECURSIVE OrderByVarianceDesc(_)
OrderByVarianceDesc(s) ==
    IF s = <<>> THEN <<>> ELSE InsertDesc(Head(s), OrderByVarianceDesc(Tail(s)))

RECURSIVE OrderByVariance(_)
OrderByVariance(s) ==
    IF s = <<>> THEN <<>> ELSE InsertAsc(Head(s), OrderByVariance(Tail(s)))

StatusQuery(ws, rows) == OrderByVariance(StatusJoin(ws, rows))

\* history_query: ORDER BY week_ending ASC
RECURSIVE InsertByWeek(_, _)
InsertByWeek(r, s) ==
    IF s = <<>> THEN <<r>>
    ELSE IF r.week_ending <= Head(s).week_ending
         THEN <<r>> \o s
         ELSE <<Head(s)>> \o InsertByWeek(r, Tail(s))

RECURSIVE HistoryQuery(_)
HistoryQuery(rows) ==
    IF rows = <<>> THEN <<>> ELSE InsertByWeek(Head(rows), HistoryQuery(Tail(rows)))

\* sorted(list(set(...)))
RECURSIVE SortedList(_)
SortedList(S) ==
    IF S = {} THEN <<>>
    ELSE LET lo == CHOOSE x \in S : \A y \in S : x <= y
         IN  <<lo>> \o SortedList(S \ {lo})

ChartLabels(hist) == SortedList({ hist[k].week_ending : k \in DOMAIN hist })

ChartDatasets(hist) ==
    [w \in { hist[k].ws_id : k \in DOMAIN hist } |->
        LET mine == SelectSeq(hist, LAMBDA r : r.ws_id = w)
        IN  [actual |-> Column(mine, "actual_pct"),
             planned |-> Column(mine, "planned_pct")]]

\* bubble_query.  The rows of the three-way join that belong to workstream w:
\* LEFT JOIN change_requests (one row with a NULL cr when none is Approved),
\* then JOIN progress restricted to the latest week.
NoCr == "NULL"

ApprovedOf(crs, w) ==
    { c \in DOMAIN crs : crs[c].ws_id = w /\ crs[c].status = "Approved" }

LeftJoinCr(crs, w) ==
    IF ApprovedOf(crs, w) = {} THEN {NoCr} ELSE ApprovedOf(crs, w)

\* (variant: JOIN progress with the WHERE clause left out)
LatestOfAnyWeek(rows, w) == { k \in DOMAIN rows : rows[k].ws_id = w }

LatestOf(rows, w) ==
    LET m == MaxWeekEnding(rows)
    IN  { k \in DOMAIN rows :
            rows[k].ws_id = w /\ (~m.isnull) /\ rows[k].week_ending = m.v }

BubbleJoin(crs, rows, w) == LeftJoinCr(crs, w) \X LatestOf(rows, w)

\* GROUP BY w.ws_id: one group per workstream with at least one joined row.
\* (variant: progress joined with LEFT JOIN, every workstream a group)
BubbleGroupsOuter(ws, crs, rows) == ws


BubbleGroups(ws, crs, rows) ==
    { w \in ws : BubbleJoin(crs, rows, w) # {} }

\* COUNT(cr.cr_id) and COALESCE(SUM(cr.cost_impact), 0) over the group's rows.
CrCount(crs, rows, w) ==
    Cardinality({ j \in BubbleJoin(crs, rows, w) : j[1] # NoCr })

TotalCrCost(crs, rows, w) ==
    LET J    == { j \in BubbleJoin(crs, rows, w) : j[1] # NoCr }
        cost == [j \in J |-> crs[j[1]].cost_impact]
    IN  SumCost(cost, J)

\* The bare column p.schedule_variance comes from some row of the group; with
\* no row of progress in the group (only under an outer join) it is NULL.
BubbleVariances(rows, w) ==
    IF LatestOf(rows, w) = {} THEN {Null}
    ELSE { Val(rows[k].schedule_variance) : k \in LatestOf(rows, w) }

\* 'r': row['total_cr_cost'] / 10000, kept as the exact fraction.
RadiusScale == 10000

BubbleEntry(crs, rows, w, y) ==
    [label |-> WsName(w), x |-> CrCount(crs, rows, w), y |-> y,
     r |-> [num |-> TotalCrCost(crs, rows, w), den |-> RadiusScale]]

Orders(S) ==
    { f \in [1..Cardinality(S) -> S] : \A a, b \in DOMAIN f : f[a] = f[b] => a = b }

----------------------------------------------------------------------------
(* dashboard(): the request, one step per statement *)

NoResult == <<>>

ReqInit ==
    /\ pc = "idle"
    /\ kpi_data = NoResult
    /\ kpi_week = Null
    /\ projects = <<>>
    /\ status_week = Null
    /\ labels = <<>>
    /\ chart_datasets = <<>>
    /\ bubble_data = <<>>
    /\ bubble_week = Null

\* conn = get_db_connection()
Connect ==
    /\ pc = "idle"
    /\ pc' = "kpi"
    /\ UNCHANGED <<kpi_data, kpi_week, projects, status_week, labels,
                   chart_datasets, bubble_data, bubble_week>>
    /\ UNCHANGED <<dbVars, genVars>>

\* kpi_data = conn.execute(kpi_query).fetchone()
RunKpiQuery ==
    /\ pc = "kpi"
    /\ kpi_data' = KpiQuery(progress, change_requests)
    /\ kpi_week' = MaxWeekEnding(progress)
    /\ pc' = "status"
    /\ UNCHANGED <<projects, status_week, labels, chart_datasets,
                   bubble_data, bubble_week>>
    /\ UNCHANGED <<dbVars, genVars>>

\* projects = conn.execute(status_query).fetchall()
RunStatusQuery ==
    /\ pc = "status"
    /\ projects' = StatusQuery(workstreams, progress)
    /\ status_week' = MaxWeekEnding(progress)
    /\ pc' = "history"
    /\ UNCHANGED <<kpi_data, kpi_week, labels, chart_datasets,
                   bubble_data, bubble_week>>
    /\ UNCHANGED <<dbVars, genVars>>

\* history_rows, labels, chart_datasets
RunHistoryQuery ==
    /\ pc = "history"
    /\ labels' = ChartLabels(HistoryQuery(progress))
    /\ chart_datasets' = ChartDatasets(HistoryQuery(progress))
    /\ pc' = "bubble"
    /\ UNCHANGED <<kpi_data, kpi_week, projects, status_week,
                   bubble_data, bubble_week>>
    /\ UNCHANGED <<dbVars, genVars>>

\* bubble_rows and the loop that formats bubble_data.  SQL fixes neither the
\* order of the groups nor the row a bare column is read from.
RunBubbleQuery ==
    /\ pc = "bubble"
    /\ LET G == BubbleGroups(workstreams, change_requests, progress)
       IN  \E order \in Orders(G) :
           \E ys \in [G -> UNION { BubbleVariances(progress, w) : w \in G }] :
              /\ \A w \in G : ys[w] \in BubbleVariances(progress, w)
              /\ bubble_data' =
                    [k \in DOMAIN order |->
                        BubbleEntry(change_requests, progress, order[k],
                                    ys[order[k]])]
    /\ bubble_week' = MaxWeekEnding(progress)
    /\ pc' = "render"
    /\ UNCHANGED <<kpi_data, kpi_week, projects, status_week, labels,
                   chart_datasets>>
    /\ UNCHANGED <<dbVars, genVars>>

\* conn.close(); return render_template(...): the request's locals are gone.
Render ==
    /\ pc = "render"
    /\ pc' = "idle"
    /\ kpi_data' = NoResult
    /\ kpi_week' = Null
    /\ projects' = <<>>
    /\ status_week' = Null
    /\ labels' = <<>>
    /\ chart_datasets' = <<>>
    /\ bubble_data' = <<>>
    /\ bubble_week' = Null
    /\ UNCHANGED <<dbVars, genVars>>

Request ==
    \/ Connect
    \/ RunKpiQuery
    \/ RunStatusQuery
    \/ RunHistoryQuery
    \/ RunBubbleQuery
    \/ Render

----------------------------------------------------------------------------
(* data.generator.py: configuration and pure helpers *)

NUM_WEEKS == 24

workstreams_data ==
    << [ws_id |-> "WS_001", name |-> "Finance (FICO)", owner |-> "Sarah J.",
        budget |-> 1500000, complexity |-> "High"],
       [ws_id |-> "WS_002", name |-> "Supply Chain (MM/SD)", owner |-> "Mike R.",
        budget |-> 2200000, complexity |-> "High"],
       [ws_id |-> "WS_003", name |-> "Human Capital (HXM)", owner |-> "Amit P.",
        budget |-> 800000, complexity |-> "Medium"],
       [ws_id |-> "WS_004", name |-> "Data Migration", owner |-> "Emily W.",
        budget |-> 600000, complexity |-> "Critical"],
       [ws_id |-> "WS_005", name |-> "Analytics (BW/SAC)", owner |-> "John D.",
        budget |-> 450000, complexity |-> "Medium"] >>

\* The day the script is first loaded (2024-03-15, so that the 24 weeks before
\* it cross a year end and a 29 February), and the days between two runs.
FirstDay == 19723 + 31 + 29 + 14

DayShifts == {0, 7}

\* START_DATE = datetime.now() - timedelta(weeks=NUM_WEEKS)
START_DATE(now) == now - 7 * NUM_WEEKS

\* (variant: the week does not advance)
WeekDateNoAdvance(now, k) == START_DATE(now)

\* week_date = START_DATE + timedelta(weeks=i)
WeekDate(now, k) == START_DATE(now) + 7 * k

\* date.strftime('%Y-%m-%d'): the proleptic Gregorian date of a day number, as
\* <<year, month, day>> (fixed-width fields: the string order is the tuple order).
StrfTime(day) ==
    LET z   == day + 719468
        era == z \div 146097
        doe == z - era * 146097
        yoe == (doe - doe \div 1460 + doe \div 36524 - doe \div 146096) \div 365
        doy == doe - (365 * yoe + yoe \div 4 - yoe \div 100)
        mp  == (5 * doy + 2) \div 153
        d   == doy - (153 * mp + 2) \div 5 + 1
        m   == IF mp < 10 THEN mp + 3 ELSE mp - 9
        y   == yoe + era * 400 + (IF m <= 2 THEN 1 ELSE 0)
    IN  <<y, m, d>>

\* week_str
WeekStr(now, k) == StrfTime(WeekDate(now, k))

\* 100 percent, in 1/600 of a percent.
Full == 100 * 600

\* increment_plan = 100 / NUM_WEEKS
increment_plan == Full \div NUM_WEEKS

\* (variant: no cap)
NoCap(x) == x

\* min(100, x)
Cap(x) == IF x < Full THEN x ELSE Full

\* The draws of random.uniform, in hundredths: the two ends of each range.
\* (variant: every workstream takes the on-track range)
OnTrackFactorsForAll(ws_id) == {95, 105}

ActualFactors(ws_id) ==
    IF ws_id = "WS_002" THEN {30, 80}
    ELSE IF ws_id = "WS_001" THEN {95, 105}
    ELSE {80, 100}

SpendFactors(ws_id) ==
    IF ws_id = "WS_002" THEN {110, 150} ELSE {90, 110}

\* increment_plan * random.uniform(...)
IncrementActual(f) == (increment_plan * f) \div 100

\* (budget / NUM_WEEKS) * random.uniform(...), in 1/6 of a currency unit
SpendRate(budget, g) == (budget * g) \div ((NUM_WEEKS * 100) \div 6)

\* round(n / d): the nearest integer.  A tie goes to the even neighbour when
\* the float is exact and to either neighbour when it is not: both are kept.
RoundSet(n, d) ==
    LET q == n \div d
        r == n % d
    IN  IF 2 * r < d THEN {q} ELSE IF 2 * r > d THEN {q + 1} ELSE {q, q + 1}

\* round(x, 2) of a percentage held in 1/600 %: hundredths of a percent
RoundPct(x) == RoundSet(x, 6)

\* round(current_spend, 2): cents
RoundSpend(s) == RoundSet(50 * s, 3)

\* (variant: the operands swapped)
VarianceSwapped(actual, planned) == RoundSet(planned - actual, 6)

\* variance = round(current_actual - current_planned, 2)
Variance(actual, planned) == RoundSet(actual - planned, 6)

\* cpi = round((current_actual/100 * budget) / (current_spend + 1), 2)
Cpi(actual, budget, spend) == RoundSet(actual * (budget \div 100), spend + 6)

\* random.randint bounds of num_crs: the two ends of each range
NumCrs(ws_id) ==
    IF ws_id = "WS_002" THEN {15, 25}
    ELSE IF ws_id = "WS_001" THEN {0, 3}
    ELSE {3, 8}

\* The database file
NoFile == [exists |-> FALSE, workstreams |-> {}, progress |-> <<>>,
           change_requests |-> {}]

EmptyDb == [exists |-> TRUE, workstreams |-> {}, progress |-> <<>>,
            change_requests |-> {}]

\* (variant: the old file is kept)
KeepDb(file) == file

\* if os.path.exists(DB_NAME): os.remove(DB_NAME)
RemoveDb(file) == NoFile

\* sqlite3.connect creates the file; CREATE TABLE IF NOT EXISTS keeps old rows
CreateSchema(file) == IF file.exists THEN file ELSE EmptyDb

NoRecord == <<>>

----------------------------------------------------------------------------
(* data.generator.py: the script, one step per statement or loop iteration *)

ws == workstreams_data[ws_idx]

GenInit ==
    /\ today = FirstDay
    /\ gpc = "start"
    /\ runs = 1
    /\ disk = NoFile
    /\ txn = NoFile
    /\ ws_idx = 0
    /\ i = 0
    /\ current_planned = 0
    /\ current_actual = 0
    /\ current_spend = 0
    /\ last_record = NoRecord
    /\ record_keys = <<>>
    /\ cr_counter = 0
    /\ cr_keys = <<>>

RemoveOldDb ==
    /\ gpc = "start"
    /\ disk' = RemoveDb(disk)
    /\ gpc' = "connect"
    /\ UNCHANGED <<today, runs, txn, ws_idx, i, current_planned, current_actual,
                   current_spend, last_record, record_keys, cr_counter, cr_keys>>
    /\ UNCHANGED <<dbVars, reqVars>>

\* conn = sqlite3.connect(DB_NAME); create_schema(cursor)
ConnectCreateSchema ==
    /\ gpc = "connect"
    /\ disk' = CreateSchema(disk)
    /\ txn' = CreateSchema(disk)
    /\ gpc' = "workstreams"
    /\ UNCHANGED <<today, runs, ws_idx, i, current_planned, current_actual,
                   current_spend, last_record, record_keys, cr_counter, cr_keys>>
    /\ UNCHANGED <<dbVars, reqVars>>

\* INSERT OR REPLACE INTO workstreams; progress_records = []
InsertWorkstreams ==
    /\ gpc = "workstreams"
    /\ txn' = [txn EXCEPT !.workstreams =
                 @ \cup { workstreams_data[k].ws_id : k \in DOMAIN workstreams_data }]
    /\ record_keys' = <<>>
    /\ ws_idx' = 0
    /\ gpc' = "ws_loop"
    /\ UNCHANGED <<today, runs, disk, i, current_planned, current_actual,
                   current_spend, last_record, cr_counter, cr_keys>>
    /\ UNCHANGED <<dbVars, reqVars>>

\* for ws in workstreams_data: current_planned = current_actual = current_spend = 0
BeginWorkstream ==
    /\ \/ gpc = "ws_loop"
       \/ gpc = "progress" /\ i = NUM_WEEKS
    /\ ws_idx < Len(workstreams_data)
    /\ ws_idx' = ws_idx + 1
    /\ i' = 0
    /\ current_planned' = 0
    /\ current_actual' = 0
    /\ current_spend' = 0
    /\ gpc' = "progress"
    /\ UNCHANGED <<today, runs, disk, txn, last_record, record_keys, cr_counter,
                   cr_keys>>
    /\ UNCHANGED <<dbVars, reqVars>>

\* one iteration of for i in range(NUM_WEEKS)
ProgressStep ==
    /\ gpc = "progress"
    /\ i < NUM_WEEKS
    /\ \E f \in ActualFactors(ws.ws_id), g \in SpendFactors(ws.ws_id) :
         LET planned == Cap(current_planned + increment_plan)
             actual  == Cap(current_actual + IncrementActual(f))
             spend   == current_spend + SpendRate(ws.budget, g)
         IN  /\ current_planned' = planned
             /\ current_actual' = actual
             /\ current_spend' = spend
             /\ \E rp \in RoundPct(planned), ra \in RoundPct(actual),
                   rs \in RoundSpend(spend), v \in Variance(actual, planned),
                   c \in Cpi(actual, ws.budget, spend) :
                   last_record' =
                       [week_ending |-> WeekStr(today, i), ws_id |-> ws.ws_id,
                        planned_pct |-> rp, actual_pct |-> ra,
                        budget_spent |-> rs, schedule_variance |-> v, cpi |-> c]
    /\ record_keys' = Append(record_keys, <<WeekStr(today, i), ws.ws_id>>)
    /\ i' = i + 1
    /\ UNCHANGED <<today, gpc, runs, disk, txn, ws_idx, cr_counter, cr_keys>>
    /\ UNCHANGED <<dbVars, reqVars>>

\* cursor.executemany('INSERT INTO progress ...', progress_records);
\* cr_records = []; cr_counter = 1000.  The loop's locals are dead from here.
InsertProgress ==
    /\ gpc = "progress"
    /\ i = NUM_WEEKS
    /\ ws_idx = Len(workstreams_data)
    /\ txn' = [txn EXCEPT !.progress = @ \o record_keys]
    /\ cr_keys' = <<>>
    /\ cr_counter' = 1000
    /\ ws_idx' = 0
    /\ i' = 0
    /\ current_planned' = 0
    /\ current_actual' = 0
    /\ current_spend' = 0
    /\ last_record' = NoRecord
    /\ gpc' = "crs"
    /\ UNCHANGED <<today, runs, disk, record_keys>>
    /\ UNCHANGED <<dbVars, reqVars>>

\* one iteration of the second for ws in workstreams_data, with its inner loop
ChangeRequestsStep ==
    /\ gpc = "crs"
    /\ ws_idx < Len(workstreams_data)
    /\ \E num_crs \in NumCrs(workstreams_data[ws_idx + 1].ws_id) :
         /\ cr_keys' = cr_keys \o
               [k \in 1..num_crs |->
                   <<cr_counter + k - 1, workstreams_data[ws_idx + 1].ws_id>>]
         /\ cr_counter' = cr_counter + num_crs
    /\ ws_idx' = ws_idx + 1
    /\ UNCHANGED <<today, gpc, runs, disk, txn, i, current_planned,
                   current_actual, current_spend, last_record, record_keys>>
    /\ UNCHANGED <<dbVars, reqVars>>

\* cursor.executemany('INSERT OR REPLACE INTO change_requests ...', cr_records)
InsertChangeRequests ==
    /\ gpc = "crs"
    /\ ws_idx = Len(workstreams_data)
    /\ txn' = [txn EXCEPT !.change_requests =
                 @ \cup { cr_keys[k][1] : k \in DOMAIN cr_keys }]
    /\ gpc' = "commit"
    /\ UNCHANGED <<today, runs, disk, ws_idx, i, current_planned, current_actual,
                   current_spend, last_record, record_keys, cr_counter, cr_keys>>
    /\ UNCHANGED <<dbVars, reqVars>>

\* conn.commit(); conn.close()
Commit ==
    /\ gpc = "commit"
    /\ disk' = txn
    /\ gpc' = "exit"
    /\ UNCHANGED <<today, runs, txn, ws_idx, i, current_planned, current_actual,
                   current_spend, last_record, record_keys, cr_counter, cr_keys>>
    /\ UNCHANGED <<dbVars, reqVars>>

\* The script is started again, the same day or later: a fresh process.
RunAgain ==
    /\ gpc = "exit"
    /\ runs < MaxRuns
    /\ runs' = runs + 1
    /\ \E shift \in DayShifts : today' = today + shift
    /\ gpc' = "start"
    /\ txn' = NoFile
    /\ ws_idx' = 0
    /\ record_keys' = <<>>
    /\ cr_counter' = 0
    /\ cr_keys' = <<>>
    /\ UNCHANGED <<disk, i, current_planned, current_actual, current_spend,
                   last_record>>
    /\ UNCHANGED <<dbVars, reqVars>>

InitGen ==
    /\ workstreams = {}
    /\ progress = <<>>
    /\ change_requests = <<>>
    /\ ReqInit
    /\ GenInit

NextGen ==
    \/ RemoveOldDb
    \/ ConnectCreateSchema
    \/ InsertWorkstreams
    \/ BeginWorkstream
    \/ ProgressStep
    \/ InsertProgress
    \/ ChangeRequestsStep
    \/ InsertChangeRequests
    \/ Commit
    \/ RunAgain

SpecGen == InitGen /\ [][NextGen]_vars

----------------------------------------------------------------------------
(* The dashboard over a fixed fact set *)

InitDash ==
    /\ workstreams \in SUBSET WsIds
    /\ progress \in ProgressTables
    /\ change_requests \in CrTables
    /\ ReqInit
    /\ GenInit

NextDash == Request

SpecDash == InitDash /\ [][NextDash]_vars

----------------------------------------------------------------------------
(* The dashboard beside a writer: every statement of dashboard() is its own *)
(* read (no transaction spans them), and a commit of the generator's       *)
(* executemany('INSERT INTO progress ...') may fall between two of them.    *)

WriterCommit ==
    /\ \E batch \in ProgressTables :
         /\ batch # <<>>
         /\ Len(progress) + Len(batch) <= MaxRows
         /\ progress' = progress \o batch
    /\ UNCHANGED <<workstreams, change_requests, reqVars, genVars>>

InitConc ==
    /\ workstreams = WsIds
    /\ progress = <<>>
    /\ change_requests \in CrTables
    /\ ReqInit
    /\ GenInit

NextConc ==
    \/ WriterCommit
    \/ Request

SpecConc == InitConc /\ [][NextConc]_vars

----------------------------------------------------------------------------
(* Properties.  They are stated on the tables themselves, not through the  *)
(* operators that model the queries.                                       *)

SumOver(f, S) == SumCost(f, S)

\* progress[j] is a snapshot of the latest week
IsLatestRow(j) ==
    \A l \in DOMAIN progress : progress[l].week_ending <= progress[j].week_ending

LatestRows == { j \in DOMAIN progress : IsLatestRow(j) }

StatusDone == pc \in {"history", "bubble", "render"}

KpiDone == pc \in {"status", "history", "bubble", "render"}

Count(seq, v) == Cardinality({ k \in DOMAIN seq : seq[k] = v })

\* C1: the status grid is ordered by schedule_variance ascending and holds
\* exactly the (workstream, snapshot) pairs of the latest week, each as often
\* as the join yields it.
C1_StatusGridOrderedAndExact ==
    StatusDone =>
        /\ \A a, b \in DOMAIN projects :
              a < b => projects[a].schedule_variance <= projects[b].schedule_variance
        /\ Len(projects) =
              Cardinality({ j \in LatestRows : progress[j].ws_id \in workstreams })
        /\ \A g \in { GridRow(p) : p \in ProgressRows } :
              Count(projects, g) =
                 Cardinality({ j \in LatestRows :
                                 /\ progress[j].ws_id \in workstreams
                                 /\ GridRow(progress[j]) = g })

\* C1 witness: two latest-week rows that the query had to reorder.
C1_Witness ==
    /\ pc = "render"
    /\ Len(progress) = 2
    /\ progress[1].week_ending = progress[2].week_ending
    /\ progress[1].schedule_variance > progress[2].schedule_variance
    /\ Len(projects) = 2
    /\ projects[1].schedule_variance < projects[2].schedule_variance

\* The fact set without its earlier weeks, and with their spend changed.
WithoutEarlierWeeks == SelectSeq(progress, LAMBDA r :
    \A l \in DOMAIN progress : progress[l].week_ending <= r.week_ending)

EarlierWeeksChanged ==
    [j \in DOMAIN progress |->
        IF IsLatestRow(j) THEN progress[j]
        ELSE [progress[j] EXCEPT !.budget_spent = @ + 777]]

\* C2: total_spend is the sum of budget_spent over exactly the latest-week
\* snapshots, and fact sets that differ only in earlier weeks give the same
\* total_spend.
C2_TotalSpendLatestWeekOnly ==
    KpiDone =>
        /\ kpi_data.total_spend =
              IF LatestRows = {} THEN Null
              ELSE Val(SumOver([j \in LatestRows |-> progress[j].budget_spent],
                               LatestRows))
        /\ KpiQuery(WithoutEarlierWeeks, change_requests).total_spend
              = kpi_data.total_spend
        /\ KpiQuery(EarlierWeeksChanged, change_requests).total_spend
              = kpi_data.total_spend

\* C2 witness: an earlier-week snapshot exists and is left out of the sum.
C2_Witness ==
    /\ pc = "render"
    /\ Len(progress) = 2
    /\ progress[1].week_ending > progress[2].week_ending
    /\ kpi_data.total_spend = Val(progress[1].budget_spent)

ApprovedCrs(w) ==
    { c \in DOMAIN change_requests :
        change_requests[c].ws_id = w /\ change_requests[c].status = "Approved" }

\* C3: every bubble's cr_count is the number of Approved change requests of
\* its workstream and its total_cr_cost is the sum of their cost_impact, on
\* every fact set the schema admits.
C3_BubbleCountsApprovedOnly ==
    pc = "render" =>
        \A k \in DOMAIN bubble_data :
            \E w \in workstreams :
                /\ bubble_data[k].label = WsName(w)
                /\ bubble_data[k].x = Cardinality(ApprovedCrs(w))
                /\ bubble_data[k].r.num =
                      SumOver([c \in ApprovedCrs(w) |-> change_requests[c].cost_impact],
                              ApprovedCrs(w))

\* C4 as claimed: the bubble list holds exactly one entry per workstream.
C4_OneBubblePerWorkstream ==
    pc = "render" =>
        /\ Len(bubble_data) = Cardinality(workstreams)
        /\ \A w \in workstreams :
              Cardinality({ k \in DOMAIN bubble_data :
                              bubble_data[k].label = WsName(w) }) = 1

HasLatestSnapshot(w) == \E j \in LatestRows : progress[j].ws_id = w

\* C4 as amended: the bubble list holds exactly one entry per workstream that
\* has a snapshot at the latest week, and none for any other workstream.
C4_OneBubblePerReportingWorkstream ==
    pc = "render" =>
        /\ Len(bubble_data) =
              Cardinality({ w \in workstreams : HasLatestSnapshot(w) })
        /\ \A w \in workstreams :
              Cardinality({ k \in DOMAIN bubble_data :
                              bubble_data[k].label = WsName(w) })
                 = IF HasLatestSnapshot(w) THEN 1 ELSE 0

\* C4 witness: one workstream with two snapshot rows at the latest week (one
\* entry, not two) beside a workstream with none (no entry).
C4_Witness ==
    /\ pc = "render"
    /\ workstreams = WsIds
    /\ Len(progress) = 2
    /\ progress[1].ws_id = progress[2].ws_id
    /\ progress[1].week_ending = progress[2].week_ending
    /\ Len(bubble_data) = 1

IsNullOrZero(x) == x.isnull \/ x.v = 0

\* C5: with no ProgressSnapshot, every statement of dashboard() can run, the
\* KPI aggregates are null or zero, and the grid, the labels and the bubble
\* list are empty.
C5_EmptyFactSetIsNeutral ==
    progress = <<>> =>
        /\ ENABLED Request
        /\ KpiDone => /\ IsNullOrZero(kpi_data.total_spend)
                      /\ kpi_data.avg_cpi.isnull
        /\ pc = "render" => /\ projects = <<>>
                            /\ labels = <<>>
                            /\ bubble_data = <<>>

\* C5 witness: workstreams and an Approved change request, but no snapshot.
C5_Witness ==
    /\ pc = "render"
    /\ progress = <<>>
    /\ workstreams = WsIds
    /\ \E c \in DOMAIN change_requests : change_requests[c].status = "Approved"
    /\ kpi_data.active_risks > 0
    /\ bubble_data = <<>>

\* C6: within one request the KPI summary, the status grid and the bubble
\* view are computed against the same latest week.
C6_OneLatestWeekPerRequest ==
    pc = "render" => kpi_week = status_week /\ status_week = bubble_week

----------------------------------------------------------------------------

Emitted == gpc = "progress" /\ last_record # NoRecord /\ i > 0

\* The step appends the next week's snapshot of the same workstream.
NextWeekOfSameWorkstream ==
    /\ Emitted
    /\ last_record' # NoRecord
    /\ last_record'.ws_id = last_record.ws_id
    /\ i' = i + 1

\* C7: along each workstream's snapshots in week order planned_pct and
\* actual_pct are non-decreasing and within [0, 100], and budget_spent is
\* non-negative and non-decreasing.
C7_HistoryShape ==
    /\ [](last_record # NoRecord =>
            /\ 0 <= last_record.planned_pct /\ last_record.planned_pct <= 10000
            /\ 0 <= last_record.actual_pct /\ last_record.actual_pct <= 10000
            /\ 0 <= last_record.budget_spent)
    /\ [][NextWeekOfSameWorkstream =>
            /\ last_record.planned_pct <= last_record'.planned_pct
            /\ last_record.actual_pct <= last_record'.actual_pct
            /\ last_record.budget_spent <= last_record'.budget_spent]_vars

\* C7 witness: the on-track workstream reaches 100 before its last week, which
\* only a factor above 1 allows: the cap has acted.
C7_Witness ==
    /\ Emitted
    /\ last_record.ws_id = "WS_001"
    /\ i < NUM_WEEKS
    /\ current_actual = Full
    /\ last_record.actual_pct = 10000
    /\ last_record.planned_pct < 10000

\* C8 as claimed: the stored schedule_variance is the stored actual_pct minus
\* the stored planned_pct.
C8_VarianceOfStoredValues ==
    Emitted =>
        last_record.schedule_variance =
            last_record.actual_pct - last_record.planned_pct

\* C8 as amended: the stored schedule_variance is the running actual minus the
\* running planned percentage rounded to two decimals, which is within one
\* hundredth of the stored actual_pct minus the stored planned_pct.
C8_VarianceOfRunningValues ==
    Emitted =>
        /\ 6 * last_record.schedule_variance - (current_actual - current_planned) <= 3
        /\ (current_actual - current_planned) - 6 * last_record.schedule_variance <= 3
        /\ last_record.schedule_variance
              - (last_record.actual_pct - last_record.planned_pct) \in {-1, 0, 1}

\* C8 witness: a row whose stored variance is not the difference of its stored
\* percentages.
C8_Witness ==
    /\ Emitted
    /\ last_record.ws_id = "WS_002"
    /\ last_record.schedule_variance
          = last_record.actual_pct - last_record.planned_pct + 1

Terminal(id) == Emitted /\ last_record.ws_id = id /\ i = NUM_WEEKS

\* C9: the terminal snapshot of the at-risk workstream has actual_pct strictly
\* below planned_pct and cpi strictly below 1, whatever the weekly factors.
C9_AtRiskTerminal ==
    Terminal("WS_002") =>
        /\ last_record.actual_pct < last_record.planned_pct
        /\ last_record.cpi < 100

\* C9 witness: the at-risk history that delivers most and spends least.
C9_Witness ==
    /\ Terminal("WS_002")
    /\ last_record.actual_pct = 8000
    /\ last_record.planned_pct = 10000
    /\ last_record.cpi = 73

NoDuplicateKey(rows) ==
    Cardinality({ rows[k] : k \in DOMAIN rows }) = Len(rows)

\* C10: after any sequence of script runs the fact log holds at most one
\* snapshot per (workstream_id, week_ending), committed or not.
C10_OneSnapshotPerWorkstreamWeek ==
    /\ NoDuplicateKey(disk.progress)
    /\ NoDuplicateKey(txn.progress)

\* C10 witness: a second run has committed its full history.
C10_Witness ==
    /\ runs = 2
    /\ gpc = "exit"
    /\ Len(disk.progress) = NUM_WEEKS * Len(workstreams_data)

====
